---- MODULE Spec2Model ----
(***************************************************************************)
(* Model of plex_cleaner_3k's MovieCleaner (src/movie_cleaner.py): the     *)
(* retention policy (_calculate_expiry_date and its helpers), the          *)
(* concurrent aggregation of _process_movies, the deletions of             *)
(* _delete_movies, and the fetches of the constructor.                     *)
(*                                                                         *)
(* Conventions.                                                            *)
(*  - Python's None is the empty tuple; a present value v is <<v>>.        *)
(*  - Ratings are integers in tenths of a rating point (7.2 is 72); the    *)
(*    value Radarr reports for a source is in tenths of that source's own  *)
(*    unit (80 % on rottenTomatoes is 800).                                *)
(*  - Instants are integers counting days.                                 *)
(*  - A string whose letter case matters (an e-mail address) is a tuple of *)
(*    one-letter strings.                                                  *)
(*  - A call that may raise returns [exc |-> name, value |-> v]; exc is    *)
(*    NoExc when the call returned.                                        *)
(***************************************************************************)
EXTENDS Integers, Sequences, FiniteSets, TLC

VARIABLES
    config,             \* self.config: thresholds and admin_emails
    imdb_top_250,       \* self.imdb_top_250
    overseerr_requests, \* self.overseerr_requests
    combined_movies,    \* self.combined_movies: tmdb id -> list of copies
    upcoming_movies,    \* self.upcoming_movies (tmdb ids of the records)
    dry_run,            \* clean_movies' argument
    pc,                 \* position of clean_movies
    task,               \* position of each task of executor.map
    outcome,            \* how _get_movie_info ended for each task
    expires_at,         \* movie_info.expires_at of each task
    user_ratings,       \* movie_info.user_rating of each task
    results,            \* return value of each _process_single_movie
    error_log,          \* what logger.error named: titles, the Top 250 list
    now,                \* datetime.now()
    movies_to_delete,   \* return value of _process_movies
    cursor,             \* <<index in movies, index in its copies>> of _delete_movies
    delete_calls,       \* calls of RadarrService.delete_movie, in order
    radarr_movie,       \* the Radarr record a policy evaluation starts from
    movie_info,         \* the MovieInfo built from it
    policy_result       \* what _calculate_expiry_date did with movie_info

vars == <<config, imdb_top_250, overseerr_requests, combined_movies,
          upcoming_movies, dry_run, pc, task, outcome, expires_at,
          user_ratings, results, error_log, now, movies_to_delete, cursor, delete_calls,
          radarr_movie, movie_info, policy_result>>

None == <<>>

Some(v) == <<v>>

NoExc == "none"

Returned(v) == [exc |-> NoExc, value |-> v]

Raised(e) == [exc |-> e, value |-> None]

\* Python truth value of an optional number: None and 0 are false.
TruthyNum(o) == o # None /\ o[1] # 0

\* Python truth value of an optional string: None and "" are false.
TruthyStr(o) == o # None /\ Len(o[1]) > 0

(***************************************************************************)
(* Strings with letter case: str.lower().                                  *)
(***************************************************************************)
LowerChar(c) ==
    CASE c = "A" -> "a"
      [] c = "B" -> "b"
      [] c = "X" -> "x"
      [] OTHER -> c

Lower(s) == [i \in 1..Len(s) |-> LowerChar(s[i])]

(***************************************************************************)
(* models/external_rating.py: the fields of ExternalRating, in order.      *)
(***************************************************************************)
ExternalRatingFields == <<"imdb", "rotten_tomatoes", "tmdb", "metacritic", "trakt">>

Services == {ExternalRatingFields[i] : i \in 1..Len(ExternalRatingFields)}

\* service.replace("_t", "T"): the key Radarr uses for the service.
RadarrKey(service) ==
    IF service = "rotten_tomatoes" THEN "rottenTomatoes" ELSE service

\* get_external_ratings: radarr_ratings maps Radarr's keys to an optional
\* value; a missing key is None, as .get(..., {}).get("value", None) gives.
get_external_ratings(radarr_ratings) ==
    [service \in Services |->
        LET v == radarr_ratings[RadarrKey(service)]
        IN  IF TruthyNum(v) /\ service \in {"rotten_tomatoes", "metacritic"}
            THEN Some(v[1] \div 10)
            ELSE v]

RECURSIVE SumOver(_, _)
SumOver(f, S) ==
    IF S = {} THEN 0
    ELSE LET x == CHOOSE y \in S : TRUE
         IN  f[x][1] + SumOver(f, S \ {x})

\* round(total / n, 1) on tenths: the nearest tenth, a tie to the even one.
Round1(total, n) ==
    LET q == total \div n
        r == total % n
    IN  IF 2 * r < n THEN q
        ELSE IF 2 * r > n THEN q + 1
        ELSE IF q % 2 = 0 THEN q ELSE q + 1

\* _determine_average_external_rating: the fields that are true in Python,
\* averaged; no such field divides by zero.
determine_average_external_rating(mi) ==
    LET ratings == {f \in Services : TruthyNum(mi.external_ratings[f])}
    IN  IF ratings = {}
        THEN Raised("ZeroDivisionError")
        ELSE Returned(Round1(SumOver(mi.external_ratings, ratings),
                             Cardinality(ratings)))

\* movie_info.title in self.imdb_top_250
is_imdb_top_250(mi, top_250) == mi.title \in top_250

\* is_admin_request of _determine_retention_days
is_admin_request(mi, cfg) ==
    \/ ~TruthyStr(mi.requested_by)
    \/ Lower(mi.requested_by[1]) \in cfg.admin_emails

determine_retention_days(mi, cfg) ==
    IF TruthyNum(mi.user_rating) /\ mi.user_rating[1] <= cfg.rating_threshold.low_rating
    THEN Returned(cfg.days_threshold.low_rating)
    ELSE LET avg == IF ~TruthyNum(mi.user_rating)
                    THEN Returned(0)   \* "or" does not evaluate its right side
                    ELSE determine_average_external_rating(mi)
         IN  IF avg.exc # NoExc THEN avg
             ELSE IF ~TruthyNum(mi.user_rating) \/ avg.value < 35
             THEN Returned(IF is_admin_request(mi, cfg)
                           THEN cfg.days_threshold.admin
                           ELSE cfg.days_threshold.user)
             ELSE Returned(cfg.days_threshold.low_rating)

\* calculate_expiry_date with the external ratings consulted before the
\* Top 250 list.
calculate_expiry_date_ratings_first(mi, cfg, top_250) ==
    IF TruthyNum(mi.user_rating) /\ mi.user_rating[1] >= cfg.rating_threshold.admin
    THEN Returned(None)
    ELSE LET avg == determine_average_external_rating(mi)
         IN  IF avg.exc # NoExc THEN Raised(avg.exc)
             ELSE IF avg.value >= 80 \/ is_imdb_top_250(mi, top_250)
             THEN Returned(None)
             ELSE LET last_activity == IF mi.last_watched # None
                                       THEN mi.last_watched[1]
                                       ELSE mi.added_at
                      retention_days == determine_retention_days(mi, cfg)
                  IN  IF retention_days.exc # NoExc THEN Raised(retention_days.exc)
                      ELSE Returned(Some(last_activity + retention_days.value))

calculate_expiry_date(mi, cfg, top_250) ==
    IF TruthyNum(mi.user_rating) /\ mi.user_rating[1] >= cfg.rating_threshold.admin
    THEN Returned(None)
    ELSE IF is_imdb_top_250(mi, top_250)
    THEN Returned(None)
    ELSE LET avg == determine_average_external_rating(mi)
         IN  IF avg.exc # NoExc THEN Raised(avg.exc)
             ELSE IF avg.value >= 80 THEN Returned(None)
             ELSE LET last_activity == IF mi.last_watched # None
                                       THEN mi.last_watched[1]
                                       ELSE mi.added_at
                      retention_days == determine_retention_days(mi, cfg)
                  IN  IF retention_days.exc # NoExc THEN Raised(retention_days.exc)
                      ELSE Returned(Some(last_activity + retention_days.value))

(***************************************************************************)
(* Inputs.  The thresholds come from config.yaml (services/config.py), the *)
(* records from Radarr, Plex, Tautulli and Overseerr.                      *)
(***************************************************************************)
Titles == {"The Godfather", "Other"}

Emails == {<<"a", "x">>, <<"A", "x">>, <<"b", "x">>}

AdminEmailLists == {{<<"a", "x">>}, {<<"A", "x">>}}

DaysThresholds == {[admin |-> 60, user |-> 30, low_rating |-> 14]}

RatingThresholds == {[admin |-> a, low_rating |-> 20] : a \in {0, 50}}

Configs ==
    [days_threshold : DaysThresholds,
     rating_threshold : RatingThresholds,
     admin_emails : AdminEmailLists]

Top250Lists == {{}, {"The Godfather"}}

UserRatings == {None, Some(0), Some(20), Some(30), Some(50)}

\* The "ratings" object of a Radarr movie, by Radarr's key.
RadarrRatings ==
    [imdb : {None, Some(0), Some(30), Some(70), Some(90)},
     rottenTomatoes : {None, Some(200), Some(800)},
     tmdb : {None, Some(65)},
     metacritic : {None, Some(0)},
     trakt : {None, Some(85)}]

AddedAts == {1}

LastWatcheds == {None, Some(40)}

RequestedBys == {None} \cup {Some(e) : e \in Emails}

Unset == [exc |-> "unset", value |-> None]

\* MovieInfo(...) of _get_movie_info, without the ids.
MovieInfo(radarr, added_at, requested_by, last_watched, user_rating) ==
    [title |-> radarr.title,
     added_at |-> added_at,
     external_ratings |-> get_external_ratings(radarr.ratings),
     requested_by |-> requested_by,
     last_watched |-> last_watched,
     user_rating |-> user_rating]

(***************************************************************************)
(* PolicySpec: _calculate_expiry_date applied to one record.               *)
(***************************************************************************)
CleanerIdle ==
    /\ overseerr_requests = <<>>
    /\ combined_movies = <<>>
    /\ upcoming_movies = <<>>
    /\ dry_run = TRUE
    /\ pc = "policy"
    /\ task = <<>>
    /\ outcome = <<>>
    /\ expires_at = <<>>
    /\ user_ratings = <<>>
    /\ results = <<>>
    /\ error_log = {}
    /\ now = 0
    /\ movies_to_delete = <<>>
    /\ cursor = <<1, 1>>
    /\ delete_calls = <<>>

PolicyInit ==
    /\ CleanerIdle
    /\ config \in Configs
    /\ imdb_top_250 \in Top250Lists
    /\ radarr_movie \in [title : Titles, ratings : RadarrRatings]
    /\ \E a \in AddedAts, r \in RequestedBys, w \in LastWatcheds, u \in UserRatings :
          movie_info = MovieInfo(radarr_movie, a, r, w, u)
    /\ policy_result = Unset

CalculateExpiry ==
    /\ pc = "policy"
    /\ policy_result = Unset
    /\ policy_result' = calculate_expiry_date(movie_info, config, imdb_top_250)
    /\ UNCHANGED <<config, imdb_top_250, overseerr_requests, combined_movies,
                   upcoming_movies, dry_run, pc, task, outcome, expires_at, user_ratings,
                   results, error_log, now, movies_to_delete, cursor,
                   delete_calls, radarr_movie, movie_info>>

PolicyNext == CalculateExpiry

PolicySpec == PolicyInit /\ [][PolicyNext]_vars

(***************************************************************************)
(* Spec: one run of clean_movies on a constructed MovieCleaner.            *)
(***************************************************************************)
MaxMovies == 2

MaxTicks == 1

max_workers == 10

SoonDays == 30

TmdbIds == 1..MaxMovies

\* self.radarr_instances, in the order of the configuration.
Instances == <<1, 2>>

\* str(movie["tmdbId"]) and int(tmdb_id)
Digits == <<"1", "2", "3", "4", "5">>

StrOf(n) == Digits[n]

IntOf(str) == CHOOSE n \in 1..Len(Digits) : Digits[n] = str

RECURSIVE Concat(_)
Concat(seqs) ==
    IF seqs = <<>> THEN <<>> ELSE Head(seqs) \o Concat(Tail(seqs))

\* The distinct values of seq, each at the place of its first occurrence.
RECURSIVE FirstOccurrences(_)
FirstOccurrences(seq) ==
    IF seq = <<>> THEN <<>>
    ELSE LET front == FirstOccurrences(SubSeq(seq, 1, Len(seq) - 1))
             last == seq[Len(seq)]
         IN  IF \E i \in 1..Len(front) : front[i] = last
             THEN front ELSE Append(front, last)

\* get_combined_movies: listings[i] is what get_movies() of the i-th instance
\* returns. The dict, in insertion order, is a list of entries
\* [tmdb_id, copies].
get_combined_movies(listings) ==
    LET all == Concat([i \in 1..Len(Instances) |->
                   [j \in 1..Len(listings[i]) |->
                       [instance |-> Instances[i]] @@ listings[i][j]]])
        kept == SelectSeq(all, LAMBDA movie : movie.hasFile)
        keys == FirstOccurrences([j \in 1..Len(kept) |-> StrOf(kept[j].tmdbId)])
    IN  [k \in 1..Len(keys) |->
            [tmdb_id |-> keys[k],
             copies |-> SelectSeq(kept, LAMBDA movie : StrOf(movie.tmdbId) = keys[k])]]

\* self.combined_movies[key]
Lookup(key) ==
    combined_movies[CHOOSE k \in 1..Len(combined_movies) :
                        combined_movies[k].tmdb_id = key].copies

\* next(iter(filter(...)), {}) and .get("requestedBy", {}).get("email", None)
requested_by_of(tmdb_id, requests) ==
    LET hits == SelectSeq(requests, LAMBDA x : x.media.tmdbId = IntOf(tmdb_id))
    IN  IF hits = <<>> THEN None ELSE Some(hits[1].requestedBy.email)

is_expired(expires, t) == expires # None /\ t >= expires[1]

will_expire_soon(expires, t) ==
    expires # None /\ t <= expires[1] /\ expires[1] <= t + SoonDays

\* The except clauses of _process_single_movie: what happens to an exception
\* of _get_movie_info or _should_delete_movie.
handle_exception_no_catch_all(exc) ==
    IF exc = "NotFound" THEN "pass" ELSE "propagate"

handle_exception(exc) ==
    IF exc = "NotFound" THEN "pass" ELSE "log"

\* The with-block of _process_movies: list(executor.map(...)) has every
\* result, and the executor has shut down, when every task has completed.
first_result_collected == \E i \in 1..Len(task) : task[i] = "done"

all_results_collected == \A i \in 1..Len(task) : task[i] = "done"

\* [tmdb_id for tmdb_id in results if tmdb_id]
RECURSIVE TruthyResults(_)
TruthyResults(rs) ==
    IF rs = <<>> THEN <<>>
    ELSE IF TruthyStr(Head(rs)) THEN <<Head(rs)[1]>> \o TruthyResults(Tail(rs))
    ELSE TruthyResults(Tail(rs))

(*************************** inputs of a run *******************************)
RunTitle(t) == IF t = 2 THEN "The Godfather" ELSE IF t = 1 THEN "Other" ELSE "Third"

NoRatings ==
    [imdb |-> None, rottenTomatoes |-> None, tmdb |-> None,
     metacritic |-> None, trakt |-> None]

RadarrMovie(t, i, hasFile, ratings) ==
    [tmdbId |-> t, id |-> 10 * i + t, title |-> RunTitle(t),
     hasFile |-> hasFile, ratings |-> ratings]

\* What the two instances hold of one film.
Holdings == {"both", "first", "second", "none"}

HoldingOf(t, kind, i) ==
    CASE kind = "both" ->
           <<RadarrMovie(t, i, TRUE, [NoRatings EXCEPT !.imdb = Some(50)])>>
      [] kind = "first" ->
           IF i = 1 THEN <<RadarrMovie(t, i, TRUE, NoRatings)>> ELSE <<>>
      [] kind = "second" ->
           <<RadarrMovie(t, i, i = 2, [NoRatings EXCEPT !.imdb = Some(90)])>>
      [] OTHER ->
           IF i = 1 THEN <<RadarrMovie(t, i, FALSE, NoRatings)>> ELSE <<>>

Listings(holding) ==
    [i \in 1..Len(Instances) |->
        Concat([t \in TmdbIds |-> HoldingOf(t, holding[t], Instances[i])])]

RunConfigs ==
    [days_threshold : DaysThresholds,
     rating_threshold : RatingThresholds,
     admin_emails : {{<<"a", "x">>}}]

RunRequests ==
    {<<[media |-> [tmdbId |-> 2], requestedBy |-> [email |-> <<"b", "x">>]],
       [media |-> [tmdbId |-> 2], requestedBy |-> [email |-> <<"a", "x">>]]>>}

\* self.plex.library.section("Movies").getGuid(...): the film, NotFound, or
\* a failure of the request.
PlexAnswers ==
    {Raised("NotFound"), Raised("ConnectionError")}
    \cup {Returned([addedAt |-> a, userRating |-> u]) :
             a \in {10, 40, 80}, u \in {None, Some(90)}}
    \cup {Returned([addedAt |-> 10, userRating |-> Some(0)])}

RunLastWatcheds == {None, Some(70)}

\* RadarrService.delete_movie: the status code of the response, or the
\* exception of session.delete.
DeleteAnswers == {Returned(200), Returned(404), Raised("ConnectionError")}

Init ==
    /\ config \in RunConfigs
    /\ imdb_top_250 \in Top250Lists
    /\ overseerr_requests \in RunRequests
    /\ \E holding \in [TmdbIds -> Holdings] :
          combined_movies = get_combined_movies(Listings(holding))
    /\ upcoming_movies = <<>>
    /\ dry_run \in BOOLEAN
    /\ pc = "process"
    /\ task = [i \in 1..Len(combined_movies) |-> "pending"]
    /\ outcome = [i \in 1..Len(combined_movies) |-> NoExc]
    /\ expires_at = [i \in 1..Len(combined_movies) |-> None]
    /\ user_ratings = [i \in 1..Len(combined_movies) |-> None]
    /\ results = [i \in 1..Len(combined_movies) |-> None]
    /\ error_log = {}
    /\ now = 100
    /\ movies_to_delete = <<>>
    /\ cursor = <<1, 1>>
    /\ delete_calls = <<>>
    /\ radarr_movie = None
    /\ movie_info = None
    /\ policy_result = Unset

PolicyVars == <<radarr_movie, movie_info, policy_result>>

SetupVars == <<config, imdb_top_250, overseerr_requests, combined_movies, dry_run>>

DeleteVars == <<movies_to_delete, cursor, delete_calls>>

Running == {i \in 1..Len(task) : task[i] \in {"running", "evaluated"}}

\* executor.map changed to hand an item out again after its task completed.
StartTask_item_again(i) ==
    /\ pc = "process"
    /\ task[i] \in {"pending", "done"}
    /\ Cardinality(Running) < max_workers
    /\ task' = [task EXCEPT ![i] = "running"]
    /\ UNCHANGED <<SetupVars, DeleteVars, PolicyVars, upcoming_movies, pc,
                   outcome, expires_at, user_ratings, results, error_log, now>>

\* A worker thread of the executor takes the next work item of
\* executor.map(process_func, self.combined_movies.items()).
StartTask(i) ==
    /\ pc = "process"
    /\ task[i] = "pending"
    /\ \A j \in 1..(i - 1) : task[j] # "pending"
    /\ Cardinality(Running) < max_workers
    /\ task' = [task EXCEPT ![i] = "running"]
    /\ UNCHANGED <<SetupVars, DeleteVars, PolicyVars, upcoming_movies, pc,
                   outcome, expires_at, user_ratings, results, error_log, now>>

\* _process_single_movie, up to the return of _get_movie_info: the lookups,
\* _calculate_expiry_date, and the record appended to upcoming_movies. An
\* exception goes to the except clauses and ends the task. (The key is
\* str(tmdbId), never empty, so "if not tmdb_id" never returns.) The Tautulli
\* call catches its own exceptions and answers None.
GetMovieInfo(i) ==
    /\ pc = "process"
    /\ task[i] = "running"
    /\ \E plex \in PlexAnswers, last_watched \in RunLastWatcheds :
          LET tmdb_id == combined_movies[i].tmdb_id
              radarr == combined_movies[i].copies[1]
              info == MovieInfo(radarr, plex.value.addedAt,
                                requested_by_of(tmdb_id, overseerr_requests),
                                last_watched, plex.value.userRating)
              expiry == IF plex.exc # NoExc THEN plex
                        ELSE calculate_expiry_date(info, config, imdb_top_250)
              handling == handle_exception(expiry.exc)
          IN  IF expiry.exc = NoExc
              THEN /\ expires_at' = [expires_at EXCEPT ![i] = expiry.value]
                   /\ user_ratings' = [user_ratings EXCEPT ![i] = info.user_rating]
                   /\ upcoming_movies' =
                         IF will_expire_soon(expiry.value, now)
                         THEN Append(upcoming_movies, tmdb_id)
                         ELSE upcoming_movies
                   /\ task' = [task EXCEPT ![i] = "evaluated"]
                   /\ UNCHANGED <<outcome, error_log, pc>>
              ELSE /\ outcome' = [outcome EXCEPT ![i] = expiry.exc]
                   /\ error_log' = IF handling = "log"
                                   THEN error_log \cup {radarr.title}
                                   ELSE error_log
                   /\ task' = [task EXCEPT ![i] = "done"]
                   /\ pc' = IF handling = "propagate" THEN "crashed" ELSE pc
                   /\ UNCHANGED <<expires_at, user_ratings, upcoming_movies>>
    /\ UNCHANGED <<SetupVars, DeleteVars, PolicyVars, results, now>>

\* _process_single_movie, from _should_delete_movie to its return.
ShouldDeleteMovie(i) ==
    /\ pc = "process"
    /\ task[i] = "evaluated"
    /\ results' = [results EXCEPT ![i] =
                      IF is_expired(expires_at[i], now)
                      THEN Some(combined_movies[i].tmdb_id) ELSE None]
    /\ task' = [task EXCEPT ![i] = "done"]
    /\ UNCHANGED <<SetupVars, DeleteVars, PolicyVars, upcoming_movies, pc,
                   outcome, expires_at, user_ratings, error_log, now>>

\* Time passes while the tasks run: a later datetime.now() may be greater.
\* The clock is read by the tasks only, and stops at MaxTicks advances.
Tick ==
    /\ pc = "process"
    /\ now < 100 + MaxTicks
    /\ now' = now + 1
    /\ UNCHANGED <<SetupVars, DeleteVars, PolicyVars, upcoming_movies, pc, task,
                   outcome, expires_at, user_ratings, results, error_log>>

\* _process_movies returns and clean_movies logs the statistics.
ProcessMoviesReturn ==
    /\ pc = "process"
    /\ all_results_collected
    /\ movies_to_delete' = TruthyResults(results)
    /\ pc' = "delete"
    /\ UNCHANGED <<SetupVars, PolicyVars, upcoming_movies, task, outcome,
                   expires_at, user_ratings, results, error_log, now, cursor,
                   delete_calls>>

\* One turn of the outer loop of _delete_movies under dry_run: the log line
\* and "continue".
WouldDelete ==
    /\ pc = "delete"
    /\ dry_run
    /\ cursor[1] <= Len(movies_to_delete)
    /\ cursor' = <<cursor[1] + 1, 1>>
    /\ UNCHANGED <<SetupVars, PolicyVars, upcoming_movies, pc, task, outcome,
                   expires_at, user_ratings, results, error_log, now, movies_to_delete,
                   delete_calls>>

\* One turn of the inner loop of _delete_movies: delete_movie on one copy. An
\* exception of session.delete leaves _delete_movies and clean_movies.
DeleteCopy ==
    /\ pc = "delete"
    /\ ~dry_run
    /\ cursor[1] <= Len(movies_to_delete)
    /\ \E answer \in DeleteAnswers :
          LET movie == Lookup(movies_to_delete[cursor[1]])
              m == movie[cursor[2]]
          IN  /\ delete_calls' = Append(delete_calls,
                     [instance |-> m.instance, id |-> m.id, answer |-> answer])
              /\ IF answer.exc # NoExc
                 THEN pc' = "crashed" /\ cursor' = cursor
                 ELSE /\ pc' = pc
                      /\ cursor' = IF cursor[2] < Len(movie)
                                   THEN <<cursor[1], cursor[2] + 1>>
                                   ELSE <<cursor[1] + 1, 1>>
    /\ UNCHANGED <<SetupVars, PolicyVars, upcoming_movies, task, outcome,
                   expires_at, user_ratings, results, error_log, now, movies_to_delete>>

\* _delete_movies and clean_movies return.
CleanMoviesReturn ==
    /\ pc = "delete"
    /\ cursor[1] > Len(movies_to_delete)
    /\ pc' = "done"
    /\ UNCHANGED <<SetupVars, DeleteVars, PolicyVars, upcoming_movies, task,
                   outcome, expires_at, user_ratings, results, error_log, now>>

Next ==
    \/ \E i \in 1..Len(task) : StartTask(i)
    \/ \E i \in 1..Len(task) : GetMovieInfo(i)
    \/ \E i \in 1..Len(task) : ShouldDeleteMovie(i)
    \/ Tick
    \/ ProcessMoviesReturn
    \/ WouldDelete
    \/ DeleteCopy
    \/ CleanMoviesReturn

Spec == Init /\ [][Next]_vars

(***************************************************************************)
(* MainSpec: main() constructs the MovieCleaner, which fetches the request *)
(* list, the Top 250 list and the Radarr listings, and then runs           *)
(* clean_movies.                                                           *)
(***************************************************************************)
\* OverseerrService.get_all_requests: the pages, or the exception of
\* session.get / raise_for_status.
RequestAnswers ==
    {Returned(requests) : requests \in RunRequests} \cup {Raised("HTTPError")}

\* What the try block of scrape_imdb_top_250 does: the titles, or the
\* exception of requests.get, raise_for_status or the parsing.
ScrapeAnswers ==
    {Returned(titles) : titles \in Top250Lists} \cup {Raised("HTTPError")}

Top250Entry == "IMDB Top 250"

MainInit ==
    /\ config \in RunConfigs
    /\ dry_run \in BOOLEAN
    /\ pc = "get_all_requests"
    /\ imdb_top_250 = {}
    /\ overseerr_requests = <<>>
    /\ combined_movies = <<>>
    /\ upcoming_movies = <<>>
    /\ task = <<>>
    /\ outcome = <<>>
    /\ expires_at = <<>>
    /\ user_ratings = <<>>
    /\ results = <<>>
    /\ error_log = {}
    /\ now = 100
    /\ movies_to_delete = <<>>
    /\ cursor = <<1, 1>>
    /\ delete_calls = <<>>
    /\ radarr_movie = None
    /\ movie_info = None
    /\ policy_result = Unset

\* self.overseerr_requests = self.overseerr.get_all_requests(): an exception
\* leaves __init__ and main.
GetAllRequests ==
    /\ pc = "get_all_requests"
    /\ \E answer \in RequestAnswers :
          IF answer.exc # NoExc
          THEN pc' = "aborted" /\ UNCHANGED overseerr_requests
          ELSE pc' = "scrape_imdb_top_250" /\ overseerr_requests' = answer.value
    /\ UNCHANGED <<config, imdb_top_250, combined_movies, dry_run, DeleteVars,
                   PolicyVars, upcoming_movies, task, outcome, expires_at, user_ratings,
                   results, error_log, now>>

\* self.imdb_top_250 = self.scrape_imdb_top_250(): an exception is logged
\* and [] returned.
ScrapeImdbTop250 ==
    /\ pc = "scrape_imdb_top_250"
    /\ \E answer \in ScrapeAnswers :
          IF answer.exc # NoExc
          THEN imdb_top_250' = {} /\ error_log' = error_log \cup {Top250Entry}
          ELSE imdb_top_250' = answer.value /\ UNCHANGED error_log
    /\ pc' = "get_combined_movies"
    /\ UNCHANGED <<config, overseerr_requests, combined_movies, dry_run,
                   DeleteVars, PolicyVars, upcoming_movies, task, outcome,
                   expires_at, user_ratings, results, now>>

\* self.combined_movies = self.get_combined_movies(), self.upcoming_movies =
\* [], and main calls clean_movies, which hands one task per key to the
\* executor.
GetCombinedMovies ==
    /\ pc = "get_combined_movies"
    /\ \E holding \in [TmdbIds -> Holdings] :
          combined_movies' = get_combined_movies(Listings(holding))
    /\ upcoming_movies' = <<>>
    /\ task' = [i \in 1..Len(combined_movies') |-> "pending"]
    /\ outcome' = [i \in 1..Len(combined_movies') |-> NoExc]
    /\ expires_at' = [i \in 1..Len(combined_movies') |-> None]
    /\ user_ratings' = [i \in 1..Len(combined_movies') |-> None]
    /\ results' = [i \in 1..Len(combined_movies') |-> None]
    /\ pc' = "process"
    /\ UNCHANGED <<config, imdb_top_250, overseerr_requests, dry_run,
                   DeleteVars, PolicyVars, error_log, now>>

MainNext ==
    \/ GetAllRequests
    \/ ScrapeImdbTop250
    \/ GetCombinedMovies
    \/ Next

MainSpec == MainInit /\ [][MainNext]_vars

(***************************************************************************)
(* The retention rules as the specification words them (sections 4.1 and   *)
(* 4.2), for the record and thresholds of the state.                       *)
(***************************************************************************)
Calculated == pc = "policy" /\ policy_result # Unset

ReturnedDate == Calculated /\ policy_result.exc = NoExc /\ policy_result.value # None

PresentSources == {f \in Services : movie_info.external_ratings[f] # None}

\* What the normalizer yields for the record: absent when it yields no number.
NormalizedRating ==
    LET avg == determine_average_external_rating(movie_info)
    IN  IF avg.exc = NoExc THEN Some(avg.value) ELSE None

ReferenceInstant ==
    IF movie_info.last_watched # None THEN movie_info.last_watched[1]
    ELSE movie_info.added_at

Rule1 ==
    /\ movie_info.user_rating # None
    /\ movie_info.user_rating[1] >= config.rating_threshold.admin

Rule2 == movie_info.title \in imdb_top_250

Rule3 == NormalizedRating # None /\ NormalizedRating[1] >= 80

Rule4a ==
    /\ movie_info.user_rating # None
    /\ movie_info.user_rating[1] <= config.rating_threshold.low_rating

Rule4b ==
    /\ ~Rule4a
    /\ \/ movie_info.user_rating = None
       \/ NormalizedRating # None /\ NormalizedRating[1] < 35

RecognizedAdministrator ==
    \/ movie_info.requested_by = None
    \/ \E a \in config.admin_emails : Lower(a) = Lower(movie_info.requested_by[1])

RequesterDayCounts == {config.days_threshold.admin, config.days_threshold.user}

DayCounts == RequesterDayCounts \cup {config.days_threshold.low_rating}

\* C4: a record whose user rating is present and at or above the never-expire
\* rating threshold never expires, whatever its other fields.
C4_HighUserRatingNeverExpires ==
    (Calculated /\ Rule1) => policy_result = Returned(None)

\* C5: a record whose title is in the exemption set never expires, also with
\* a low or absent user rating and with every external rating absent.
C5_ExemptTitleNeverExpires ==
    (Calculated /\ Rule2) => policy_result = Returned(None)

C5_Witness ==
    /\ Calculated
    /\ Rule2
    /\ movie_info.user_rating = None
    /\ PresentSources = {}
    /\ policy_result = Returned(None)

\* C6: a record matching none of the never-expire rules expires at its
\* reference instant (last-watched if present, else added-at) plus a
\* retention-day count.
C6_ExpiryIsReferencePlusRetention ==
    (Calculated /\ ~Rule1 /\ ~Rule2 /\ ~Rule3) =>
        /\ policy_result.exc = NoExc
        /\ policy_result.value # None
        /\ \E d \in DayCounts : policy_result.value = Some(ReferenceInstant + d)

\* C7: of a record that reached rule 4, the day count is the low-rating one
\* when the user rating is present and at or below the low-rating threshold,
\* else a requester-based one when the user rating is absent or the
\* normalized external rating is below 3.5, else the low-rating one.
C7_RetentionPrecedence ==
    (ReturnedDate /\ ~Rule1 /\ ~Rule2 /\ ~Rule3) =>
        LET days == policy_result.value[1] - ReferenceInstant
        IN  IF Rule4a THEN days = config.days_threshold.low_rating
            ELSE IF Rule4b THEN days \in RequesterDayCounts
            ELSE days = config.days_threshold.low_rating

\* C8: under rule 4b the administrator day count is used exactly when the
\* requester is absent or equals a configured administrator identity up to
\* letter case, and the non-administrator day count otherwise.
C8_AdminMatchIgnoresCase ==
    (ReturnedDate /\ ~Rule1 /\ ~Rule2 /\ ~Rule3 /\ Rule4b) =>
        policy_result.value =
            Some(ReferenceInstant + (IF RecognizedAdministrator
                                     THEN config.days_threshold.admin
                                     ELSE config.days_threshold.user))

\* C9: a record whose external ratings are all absent, with a non-exempt
\* title, still gets an expiry decision: it is matched by neither the >= 8.0
\* rule nor the < 3.5 test, and with no user rating its expiry is the
\* reference instant plus a requester-based day count.
C9_AllAbsentRatingsStillDecided ==
    (Calculated /\ PresentSources = {} /\ ~Rule1 /\ ~Rule2) =>
        /\ policy_result.exc = NoExc
        /\ policy_result.value # None
        /\ movie_info.user_rating = None =>
              \E d \in RequesterDayCounts :
                  policy_result.value = Some(ReferenceInstant + d)

(***************************************************************************)
(* Properties of a run.                                                    *)
(***************************************************************************)
Items == 1..Len(combined_movies)

KeyOf(i) == combined_movies[i].tmdb_id

TitleOf(i) == combined_movies[i].copies[1].title

ToDelete == {movies_to_delete[k] : k \in 1..Len(movies_to_delete)}

Upcoming == {upcoming_movies[k] : k \in 1..Len(upcoming_movies)}

AggregationOver == pc \in {"delete", "done"} \/ delete_calls # <<>>

NoTaskOutstanding == \A i \in Items : task[i] = "done"

CallsTo(m) ==
    Cardinality({k \in 1..Len(delete_calls) :
                    delete_calls[k].instance = m.instance /\ delete_calls[k].id = m.id})

\* C1: under dry_run delete_movie is never called; a live run that has left
\* _delete_movies has called it exactly once on every copy of every expired
\* id.
C1_DeleteOncePerCopy ==
    /\ dry_run => delete_calls = <<>>
    /\ (~dry_run /\ pc \in {"done", "crashed"}) =>
          \A key \in ToDelete :
              \A c \in 1..Len(Lookup(key)) : CallsTo(Lookup(key)[c]) = 1

\* C2: failures of single items never abort the aggregation: an item that
\* raised has no result and is not handed on, a not-found item leaves no
\* error log entry, any other failure leaves one naming the item, and every
\* other item is in the result exactly when its decision is "expired".
C2_FailuresIsolated ==
    /\ pc = "crashed" => delete_calls # <<>>
    /\ AggregationOver => NoTaskOutstanding
    /\ \A i \in Items :
          task[i] = "done" =>
              IF outcome[i] # NoExc
              THEN /\ results[i] = None
                   /\ KeyOf(i) \notin ToDelete
                   /\ outcome[i] = "NotFound" => TitleOf(i) \notin error_log
                   /\ outcome[i] # "NotFound" => TitleOf(i) \in error_log
              ELSE /\ TitleOf(i) \notin error_log
                   /\ results[i] # None =>
                         results[i] = Some(KeyOf(i)) /\ is_expired(expires_at[i], now)
                   /\ results[i] = None => ~is_expired(expires_at[i], 100)
                   /\ AggregationOver => (KeyOf(i) \in ToDelete <=> results[i] # None)

C2_Witness ==
    /\ pc = "delete"
    /\ \E i, j \in Items :
          /\ outcome[i] = "NotFound" /\ outcome[j] \notin {"NotFound", NoExc}
          /\ TitleOf(i) \notin error_log /\ TitleOf(j) \in error_log
          /\ ToDelete = {}

\* C3: no delete is issued, and the executor phase is not entered, while a
\* task of _process_movies is pending or running; the ids handed to the
\* executor are the decisions of all tasks.
C3_BarrierBeforeDelete ==
    AggregationOver =>
        /\ NoTaskOutstanding
        /\ movies_to_delete = TruthyResults(results)

C3_Witness ==
    /\ ~dry_run
    /\ Len(task) >= 2
    /\ delete_calls # <<>>
    /\ NoTaskOutstanding
    /\ \E i \in Items : results[i] # None
    /\ \E i \in Items : results[i] = None

\* C10: an item is expired iff its expiry instant is present and not after
\* the current instant, expiring soon iff it is present and within the 30
\* days from the current instant, and no id is both reported as expiring soon
\* and handed to the executor as expired.
C10_SoonIsNotDeleted ==
    /\ \A i \in Items :
          /\ results[i] # None => is_expired(expires_at[i], now)
          /\ KeyOf(i) \in Upcoming =>
                /\ expires_at[i] # None
                /\ expires_at[i][1] >= 100
                /\ expires_at[i][1] <= now + SoonDays
    /\ \A i \in Items : ~(KeyOf(i) \in Upcoming /\ results[i] # None)
    /\ Upcoming \cap ToDelete = {}

FailedCalls ==
    {k \in 1..Len(delete_calls) : delete_calls[k].answer # Returned(200)}

\* C11: in a live run a failed delete of one copy (a non-success response or
\* a transport error) does not keep the delete from the other copies: once
\* the run has left _delete_movies with some delete failed, every copy of
\* every expired id has been attempted, and no copy is attempted twice.
C11_FailedDeleteDoesNotBlockOthers ==
    /\ \A key \in ToDelete :
          \A c \in 1..Len(Lookup(key)) : CallsTo(Lookup(key)[c]) <= 1
    /\ (~dry_run /\ pc \in {"done", "crashed"} /\ FailedCalls # {}) =>
          \A key \in ToDelete :
              \A c \in 1..Len(Lookup(key)) : CallsTo(Lookup(key)[c]) >= 1

Constructed ==
    pc \notin {"get_all_requests", "scrape_imdb_top_250", "get_combined_movies"}

\* C12: a failed fetch of the exemption list or of the request list during
\* setup does not abort the run: the construction is never left by an
\* exception, a failed fetch of the exemption list leaves the empty
\* exemption set, and every item is then processed before the run goes on to
\* the deletions.
C12_FailedFetchSubstitutesEmptySet ==
    /\ pc # "aborted"
    /\ (Top250Entry \in error_log /\ Constructed) => imdb_top_250 = {}
    /\ (Constructed /\ AggregationOver) => NoTaskOutstanding

\* The half of C12 about the exemption list alone.
FailedScrapeSubstitutesEmptySet ==
    (Top250Entry \in error_log) =>
        /\ pc # "aborted"
        /\ imdb_top_250 = {}
        /\ AggregationOver => NoTaskOutstanding

(***************************************************************************)
(* The normalizer as the specification words it (section 4.1), for the     *)
(* ratings Radarr reported for the record of the state.                    *)
(***************************************************************************)
ReportedSources == {f \in Services : radarr_movie.ratings[RadarrKey(f)] # None}

\* The value of a reported source on the common scale, in tenths.
OnCommonScale ==
    [f \in Services |->
        LET v == radarr_movie.ratings[RadarrKey(f)]
        IN  IF v = None THEN None
            ELSE IF f \in {"rotten_tomatoes", "metacritic"} THEN Some(v[1] \div 10)
            ELSE v]

MeanOfReportedSources ==
    Round1(SumOver(OnCommonScale, ReportedSources), Cardinality(ReportedSources))

\* C13: the normalized rating of a record is the mean, rounded to one
\* decimal place, of exactly the sources that are present, rotten_tomatoes
\* and metacritic divided by 10 and the others unchanged; a present source
\* whose value is 0 counts in the mean.
C13_MeanOfPresentSources ==
    (Calculated /\ ReportedSources # {}) =>
        determine_average_external_rating(movie_info) = Returned(MeanOfReportedSources)

\* The example of C13: imdb 7.0, rotten_tomatoes 80, tmdb 6.5 give 7.2.
C13_Example ==
    (/\ Calculated
     /\ radarr_movie.ratings = [imdb |-> Some(70), rottenTomatoes |-> Some(800),
                                tmdb |-> Some(65), metacritic |-> None,
                                trakt |-> None]) =>
        determine_average_external_rating(movie_info) = Returned(72)

(***************************************************************************)
(* Sequential processing: the items one after the other in the order of    *)
(* combined_movies, item i reading the clock at read[i], each with the     *)
(* outcome and the expiry instant its own evaluation gave.                 *)
(***************************************************************************)
ClockReadings == [Items -> 100..now]

ExpiredAt(i, t) ==
    outcome[i] = NoExc /\ expires_at[i] # None /\ expires_at[i][1] <= t

SoonAt(i, t) ==
    /\ outcome[i] = NoExc
    /\ expires_at[i] # None
    /\ t <= expires_at[i][1]
    /\ expires_at[i][1] <= t + SoonDays

ItemsInOrder == [i \in Items |-> i]

KeysOf(items) == [k \in 1..Len(items) |-> KeyOf(items[k])]

SequentialExpired(read) ==
    KeysOf(SelectSeq(ItemsInOrder, LAMBDA i : ExpiredAt(i, read[i])))

SequentialUpcoming(read) ==
    KeysOf(SelectSeq(ItemsInOrder, LAMBDA i : SoonAt(i, read[i])))

SetOf(seq) == {seq[k] : k \in 1..Len(seq)}

OneRecordPerItem == Len(upcoming_movies) = Cardinality(Upcoming)

SameOutputsAsSequential ==
    /\ Cardinality(Running) <= max_workers
    /\ OneRecordPerItem
    /\ AggregationOver =>
          /\ \E read \in ClockReadings : movies_to_delete = SequentialExpired(read)
          /\ \E read \in ClockReadings : Upcoming = SetOf(SequentialUpcoming(read))

\* A step that writes upcoming_movies finds it as the constructor left it:
\* no task has written it before.
NoWriteAfterAnotherTask ==
    upcoming_movies' # upcoming_movies => upcoming_movies = <<>>

\* C14: the outputs do not depend on the interleaving of the tasks: with at
\* most 10 tasks in flight, one per id, the expired ids and the
\* expiring-soon records are those of sequential processing, one record per
\* item so classified, and no task reads or writes state that another task
\* wrote.
C14_OutputsIndependentOfInterleaving ==
    []SameOutputsAsSequential /\ [][NoWriteAfterAnotherTask]_vars

\* C14, amended: the list of expired ids and the set of expiring-soon
\* records are those of sequential processing, one record per item so
\* classified; the tasks share upcoming_movies, to which each of them
\* appends at most once, in the order in which they get there.
C14_SameOutputsUpToOrderOfUpcoming ==
    /\ SameOutputsAsSequential
    /\ \A k \in 1..Len(upcoming_movies) :
          \E i \in Items :
              /\ upcoming_movies[k] = KeyOf(i)
              /\ task[i] \in {"evaluated", "done"}
              /\ \E t \in 100..now : SoonAt(i, t)

C14_Witness ==
    /\ AggregationOver
    /\ Len(combined_movies) = 2
    /\ upcoming_movies = <<KeyOf(2), KeyOf(1)>>
    /\ movies_to_delete = <<>>

(***************************************************************************)
(* Keep safety, from the inputs of an item to the delete calls.            *)
(***************************************************************************)
CopiesOf(i) == combined_movies[i].copies

ReceivedDelete(i) == \E c \in 1..Len(CopiesOf(i)) : CallsTo(CopiesOf(i)[c]) > 0

HighUserRating(i) ==
    user_ratings[i] # None /\ user_ratings[i][1] >= config.rating_threshold.admin

ExemptTitle(i) == TitleOf(i) \in imdb_top_250

HighExternalRating(i) ==
    LET avg == determine_average_external_rating(
                   [external_ratings |-> get_external_ratings(CopiesOf(i)[1].ratings)])
    IN  avg.exc = NoExc /\ avg.value >= 80

\* Every delete is on a copy of an item that was evaluated without failure
\* and whose expiry instant is present and not after the current instant.
DeletesOnlyOfExpired ==
    /\ \A k \in 1..Len(delete_calls) :
          \E i \in Items : \E c \in 1..Len(CopiesOf(i)) :
              /\ CopiesOf(i)[c].instance = delete_calls[k].instance
              /\ CopiesOf(i)[c].id = delete_calls[k].id
    /\ \A i \in Items :
          ReceivedDelete(i) =>
              /\ task[i] = "done"
              /\ outcome[i] = NoExc
              /\ expires_at[i] # None
              /\ expires_at[i][1] <= now

\* C15: delete_movie is called only on copies of ids whose record was built
\* in this run and whose expiry instant is present and at or before the
\* current instant; an id whose evaluation failed or was not-found, or that
\* never expires (user rating at or above the threshold, exempt title, or
\* external rating >= 8.0), receives no delete on any copy.
C15_KeepSafety ==
    /\ DeletesOnlyOfExpired
    /\ \A i \in Items :
          ReceivedDelete(i) =>
              ~HighUserRating(i) /\ ~ExemptTitle(i) /\ ~HighExternalRating(i)

====
